---------------------------- MODULE Spec2Model ----------------------------
(***************************************************************************)
(* Model of the mesh-network client core:                                  *)
(*   - Graph (src-tauri/src/graph_p.rs): a weighted undirected multigraph  *)
(*     kept in a petgraph StableGraph together with two lookup indices.    *)
(*   - the connection helpers (src-tauri/src/ipc/helpers.rs): the timeout  *)
(*     guard and the decode loop sharing the device registry and graph.    *)
(* Node and edge handles are numbered from 1 (petgraph numbers from 0);    *)
(* 0 stands for "no handle".  Weights are integers: the f64 arithmetic of  *)
(* the source is exact on them.                                            *)
(***************************************************************************)
EXTENDS Integers, Sequences, FiniteSets, Bags, TLC

\* ------------------------------------------------------------------ bounds
MaxNodes == 3
MaxEdges == 2
MaxOps == 5
MaxConns == 2
\* connection attempts followed under fair scheduling
MaxFairConns == 1

Keys == {"a", "b"}
\* edge weights the callers pass
Weights == {1, 2}
NodeIx == 1..MaxNodes
EdgeIx == 1..MaxEdges
\* parallel_edge_idx: None and Some(0) both read as 0 (unwrap_or(0))
PIdx == 0..MaxEdges
\* serial ports a connection may be opened on, and the connection attempts
Ports == {"p1", "p2"}
Conns == 1..MaxConns

VARIABLES
    g,              \* Graph.g: the StableGraph
    node_idx_map,   \* Graph.node_idx_map: key -> node handle
    edge_idx_map,   \* Graph.edge_idx_map: (handle, handle) -> list of edge handles
    panicked,       \* a call on the Graph has panicked (unwrap on None, index out of range)
    last,           \* the last call made on the Graph and its arguments
    pairlog,        \* per unordered key pair: weights added by add_edge, or touched otherwise
    ops             \* number of calls made so far

gvars == <<g, node_idx_map, edge_idx_map, panicked, last, pairlog, ops>>

VARIABLES
    connected_devices,  \* state::ConnectedDevices: port name -> session (MeshDevice)
    mesh_graph,         \* state::NetworkGraph: "None", or Some graph: "New" / "Regenerated"
    devices_lock,       \* holder of the registry mutex, or Free
    graph_lock,         \* holder of the graph mutex, or Free
    conn,               \* per connection attempt: port, task positions, channel closed
    notes,              \* bag of configuration-status notifications dispatched
    cfg_done,           \* ports whose registered session has had its packet handler
                        \* run on the configuration-complete signal
    missed              \* kinds of task that have found no session under their port

pvars == <<connected_devices, mesh_graph, devices_lock, graph_lock, conn, notes,
           cfg_done, missed>>

\* ------------------------------------------------------------ small helpers
MapPut(m, k, x) == [y \in (DOMAIN m) \cup {k} |-> IF y = k THEN x ELSE m[y]]

MapDel(m, k) ==
    IF (DOMAIN m) \ {k} = {} THEN <<>> ELSE [y \in (DOMAIN m) \ {k} |-> m[y]]

\* Vec::swap_remove at 0-based position p of a list that has it
SwapRemove(s, p) ==
    LET n == Len(s)
    IN  IF p + 1 = n THEN SubSeq(s, 1, n - 1)
        ELSE [SubSeq(s, 1, n - 1) EXCEPT ![p + 1] = s[n]]

SeqRemove(s, x) == SelectSeq(s, LAMBDA y : y # x)

RECURSIVE SumSeq(_)
SumSeq(s) == IF s = <<>> THEN 0 ELSE Head(s) + SumSeq(Tail(s))

\* ------------------------------------------------- petgraph::StableGraph
\* A node slot: live or vacant, the Node weight (name, optimal_weighted_degree)
\* and the two adjacency lists, newest edge first.
NodeSlot(name) ==
    [live |-> TRUE, name |-> name, optimal_weighted_degree |-> 0,
     out |-> <<>>, inc |-> <<>>]

VacantNode ==
    [live |-> FALSE, name |-> "", optimal_weighted_degree |-> 0,
     out |-> <<>>, inc |-> <<>>]

\* An edge slot: the graph's endpoints (src, dst) and the Edge weight (u, v, weight)
EdgeSlot(a, b, e) ==
    [live |-> TRUE, src |-> a, dst |-> b, u |-> e.u, v |-> e.v, weight |-> e.weight]

VacantEdge == [live |-> FALSE, src |-> 0, dst |-> 0, u |-> 0, v |-> 0, weight |-> 0]

NewStableGraph ==
    [nodes |-> <<>>, free_node |-> <<>>, edges |-> <<>>, free_edge |-> <<>>]

NodeLive(gr, a) == a \in 1..Len(gr.nodes) /\ gr.nodes[a].live

EdgeLive(gr, e) == e \in 1..Len(gr.edges) /\ gr.edges[e].live

\* StableGraph::add_node: reuse the most recently freed slot, else grow
pg_add_node(gr, name) ==
    IF gr.free_node # <<>>
    THEN LET idx == Head(gr.free_node)
         IN  [g |-> [gr EXCEPT !.nodes[idx] = NodeSlot(name),
                               !.free_node = Tail(gr.free_node)],
              idx |-> idx]
    ELSE [g |-> [gr EXCEPT !.nodes = Append(gr.nodes, NodeSlot(name))],
          idx |-> Len(gr.nodes) + 1]

\* StableGraph::add_edge between two live nodes: reuse the most recently freed
\* slot, else grow; the edge goes to the head of a's outgoing and b's incoming list
pg_add_edge(gr, a, b, e) ==
    LET idx == IF gr.free_edge # <<>> THEN Head(gr.free_edge) ELSE Len(gr.edges) + 1
        es  == IF gr.free_edge # <<>>
               THEN [gr.edges EXCEPT ![idx] = EdgeSlot(a, b, e)]
               ELSE Append(gr.edges, EdgeSlot(a, b, e))
        fe  == IF gr.free_edge # <<>> THEN Tail(gr.free_edge) ELSE gr.free_edge
        n1  == [gr.nodes EXCEPT ![a].out = <<idx>> \o @]
        n2  == [n1 EXCEPT ![b].inc = <<idx>> \o @]
    IN  [g |-> [gr EXCEPT !.nodes = n2, !.edges = es, !.free_edge = fe],
         idx |-> idx]

\* first element of s satisfying the endpoint test, 0 if none
RECURSIVE FirstWith(_, _, _, _)
FirstWith(gr, s, field, b) ==
    IF s = <<>> THEN 0
    ELSE IF gr.edges[Head(s)][field] = b THEN Head(s)
    ELSE FirstWith(gr, Tail(s), field, b)

\* StableGraph::find_edge (undirected): a's outgoing list, then its incoming list
pg_find_edge(gr, a, b) ==
    IF ~NodeLive(gr, a) THEN 0
    ELSE LET o == FirstWith(gr, gr.nodes[a].out, "dst", b)
         IN  IF o # 0 THEN o ELSE FirstWith(gr, gr.nodes[a].inc, "src", b)

pg_contains_edge(gr, a, b) == pg_find_edge(gr, a, b) # 0

\* StableGraph::remove_edge: nothing if the handle is vacant
pg_remove_edge(gr, e) ==
    IF ~EdgeLive(gr, e) THEN gr
    ELSE LET a  == gr.edges[e].src
             b  == gr.edges[e].dst
             n1 == [gr.nodes EXCEPT ![a].out = SeqRemove(@, e)]
             n2 == [n1 EXCEPT ![b].inc = SeqRemove(@, e)]
         IN  [gr EXCEPT !.nodes = n2,
                        !.edges[e] = VacantEdge,
                        !.free_edge = <<e>> \o gr.free_edge]

\* StableGraph::update_edge: overwrite the weight of the edge find_edge returns
pg_update_edge(gr, a, b, e) ==
    LET ix == pg_find_edge(gr, a, b)
    IN  IF ix # 0
        THEN [g |-> [gr EXCEPT !.edges[ix].u = e.u, !.edges[ix].v = e.v,
                               !.edges[ix].weight = e.weight],
              idx |-> ix]
        ELSE pg_add_edge(gr, a, b, e)

RECURSIVE pg_remove_all_edges(_, _, _)
pg_remove_all_edges(gr, a, k) ==
    LET l == IF k = 0 THEN gr.nodes[a].out ELSE gr.nodes[a].inc
    IN  IF l = <<>> THEN gr ELSE pg_remove_all_edges(pg_remove_edge(gr, Head(l)), a, k)

\* StableGraph::remove_node: drop its outgoing then incoming edges, free the slot
pg_remove_node(gr, a) ==
    IF ~NodeLive(gr, a) THEN gr
    ELSE LET g1 == pg_remove_all_edges(gr, a, 0)
             g2 == pg_remove_all_edges(g1, a, 1)
         IN  [g2 EXCEPT !.nodes[a] = VacantNode,
                        !.free_node = <<a>> \o g2.free_node]

\* StableGraph::neighbors_undirected: targets of outgoing edges, then sources of
\* incoming edges that are not self-loops
pg_neighbors_undirected(gr, a) ==
    IF ~NodeLive(gr, a) THEN <<>>
    ELSE LET o == gr.nodes[a].out
             i == SelectSeq(gr.nodes[a].inc, LAMBDA e : gr.edges[e].src # a)
         IN  [k \in 1..Len(o) |-> gr.edges[o[k]].dst] \o
             [k \in 1..Len(i) |-> gr.edges[i[k]].src]

pg_node_count(gr) == Cardinality({a \in 1..Len(gr.nodes) : gr.nodes[a].live})

pg_edge_count(gr) == Cardinality({e \in 1..Len(gr.edges) : gr.edges[e].live})


\* ------------------------------------------------------------------ Graph
\* The Graph value a method works on, and whether the method has panicked.
Self == [g |-> g, node_idx_map |-> node_idx_map, edge_idx_map |-> edge_idx_map,
         panic |-> FALSE]

Panic(s) == [s EXCEPT !.panic = TRUE]

Entry(m, k) == IF k \in DOMAIN m THEN m[k] ELSE <<>>

\* Graph::new
GraphNew == [g |-> NewStableGraph, node_idx_map |-> <<>>, edge_idx_map |-> <<>>,
             panic |-> FALSE]

\* Graph::add_node: a fresh node every time; the key's index entry is overwritten
add_node(s, name) ==
    LET r == pg_add_node(s.g, name)
    IN  [s EXCEPT !.g = r.g, !.node_idx_map = MapPut(s.node_idx_map, name, r.idx)]

\* Graph::change_node_opt_weight: node_weight_mut(idx).unwrap(), then an assignment
change_node_opt_weight(s, idx, new_weight) ==
    IF s.panic THEN s
    ELSE IF ~NodeLive(s.g, idx) THEN Panic(s)
    ELSE [s EXCEPT !.g.nodes[idx].optimal_weighted_degree = new_weight * 2]

\* entry(k).or_insert(Vec::new()).push(e)
push_entry(s, k, e) ==
    [s EXCEPT !.edge_idx_map = MapPut(s.edge_idx_map, k, Append(Entry(s.edge_idx_map, k), e))]

\* add_edge as it would be with the (v,u) registration forgotten
add_edge_one_way(s, u, v, weight) ==
    IF u \notin DOMAIN s.node_idx_map THEN s
    ELSE IF v \notin DOMAIN s.node_idx_map THEN s
    ELSE LET u_idx == s.node_idx_map[u]
             v_idx == s.node_idx_map[v]
         IN  IF ~NodeLive(s.g, u_idx) \/ ~NodeLive(s.g, v_idx) THEN Panic(s)
             ELSE LET r  == pg_add_edge(s.g, u_idx, v_idx,
                                        [u |-> u_idx, v |-> v_idx, weight |-> weight])
                      s1 == push_entry([s EXCEPT !.g = r.g], <<u_idx, v_idx>>, r.idx)
                      s3 == change_node_opt_weight(s1, u_idx, weight)
                  IN  change_node_opt_weight(s3, v_idx, weight)

\* Graph::add_edge
add_edge(s, u, v, weight) ==
    IF u \notin DOMAIN s.node_idx_map THEN s
    ELSE IF v \notin DOMAIN s.node_idx_map THEN s
    ELSE LET u_idx == s.node_idx_map[u]
             v_idx == s.node_idx_map[v]
         IN  \* StableGraph::add_edge panics on a vacant endpoint
             IF ~NodeLive(s.g, u_idx) \/ ~NodeLive(s.g, v_idx) THEN Panic(s)
             ELSE LET r  == pg_add_edge(s.g, u_idx, v_idx,
                                        [u |-> u_idx, v |-> v_idx, weight |-> weight])
                      s1 == push_entry([s EXCEPT !.g = r.g], <<u_idx, v_idx>>, r.idx)
                      s2 == push_entry(s1, <<v_idx, u_idx>>, r.idx)
                      s3 == change_node_opt_weight(s2, u_idx, weight)
                  IN  change_node_opt_weight(s3, v_idx, weight)

\* entry(k).or_insert(Vec::new())[p] = e
set_entry(s, k, p, e) ==
    IF s.panic THEN s
    ELSE LET m0 == MapPut(s.edge_idx_map, k, Entry(s.edge_idx_map, k))
         IN  IF p >= Len(m0[k]) THEN Panic([s EXCEPT !.edge_idx_map = m0])
             ELSE [s EXCEPT !.edge_idx_map = [m0 EXCEPT ![k][p + 1] = e]]

\* Graph::update_edge
update_edge(s, u, v, weight, p) ==
    IF u \notin DOMAIN s.node_idx_map THEN s
    ELSE IF v \notin DOMAIN s.node_idx_map THEN s
    ELSE LET u_idx == s.node_idx_map[u]
             v_idx == s.node_idx_map[v]
         IN  IF ~pg_contains_edge(s.g, u_idx, v_idx) THEN add_edge(s, u, v, weight)
             ELSE IF <<u_idx, v_idx>> \notin DOMAIN s.edge_idx_map THEN Panic(s)
             ELSE LET edge_idx == s.edge_idx_map[<<u_idx, v_idx>>]
                  IN  IF p >= Len(edge_idx) THEN Panic(s)
                      ELSE IF ~EdgeLive(s.g, edge_idx[p + 1]) THEN Panic(s)
                      ELSE LET old_weight == s.g.edges[edge_idx[p + 1]].weight
                               r  == pg_update_edge(s.g, u_idx, v_idx,
                                        [u |-> u_idx, v |-> v_idx, weight |-> weight])
                               s1 == set_entry([s EXCEPT !.g = r.g], <<u_idx, v_idx>>, p, r.idx)
                               s2 == set_entry(s1, <<v_idx, u_idx>>, p, r.idx)
                               s3 == change_node_opt_weight(s2, u_idx, weight - old_weight)
                           IN  change_node_opt_weight(s3, v_idx, weight - old_weight)

\* Graph::get_edge_weight: [ret, panic]
get_edge_weight(s, u, v, p, get_all_parallel) ==
    IF u \notin DOMAIN s.node_idx_map THEN [ret |-> 0, panic |-> FALSE]
    ELSE IF v \notin DOMAIN s.node_idx_map THEN [ret |-> 0, panic |-> FALSE]
    ELSE LET u_idx == s.node_idx_map[u]
             v_idx == s.node_idx_map[v]
         IN  IF ~pg_contains_edge(s.g, u_idx, v_idx) THEN [ret |-> 0, panic |-> FALSE]
             ELSE IF <<u_idx, v_idx>> \notin DOMAIN s.edge_idx_map
                  THEN [ret |-> 0, panic |-> TRUE]
             ELSE LET edge_idx_list == s.edge_idx_map[<<u_idx, v_idx>>]
                  IN  IF get_all_parallel
                      THEN IF p >= Len(edge_idx_list) \/ ~EdgeLive(s.g, edge_idx_list[p + 1])
                           THEN [ret |-> 0, panic |-> TRUE]
                           ELSE [ret |-> s.g.edges[edge_idx_list[p + 1]].weight,
                                 panic |-> FALSE]
                      ELSE IF \E k \in 1..Len(edge_idx_list) : ~EdgeLive(s.g, edge_idx_list[k])
                           THEN [ret |-> 0, panic |-> TRUE]
                           ELSE [ret |-> SumSeq([k \in 1..Len(edge_idx_list) |->
                                                   s.g.edges[edge_idx_list[k]].weight]),
                                 panic |-> FALSE]

\* entry(k).or_insert(Vec::new()).swap_remove(p)
swap_remove_entry(s, k, p) ==
    IF s.panic THEN s
    ELSE LET m0 == MapPut(s.edge_idx_map, k, Entry(s.edge_idx_map, k))
         IN  IF p >= Len(m0[k]) THEN Panic([s EXCEPT !.edge_idx_map = m0])
             ELSE [s EXCEPT !.edge_idx_map = MapPut(m0, k, SwapRemove(m0[k], p))]

\* the remove_all_parallel loop over the cloned list
RECURSIVE remove_all_loop(_, _, _, _)
remove_all_loop(s, list, u_idx, v_idx) ==
    IF s.panic \/ list = <<>> THEN s
    ELSE LET edge_idx == Head(list)
         IN  IF ~EdgeLive(s.g, edge_idx) THEN Panic(s)
             ELSE LET weight == s.g.edges[edge_idx].weight
                      s1 == [s EXCEPT !.g = pg_remove_edge(s.g, edge_idx)]
                      s2 == change_node_opt_weight(s1, u_idx, -weight)
                      s3 == change_node_opt_weight(s2, v_idx, -weight)
                  IN  remove_all_loop(s3, Tail(list), u_idx, v_idx)

\* Graph::remove_edge
remove_edge(s, u, v, p, remove_all_parallel) ==
    IF u \notin DOMAIN s.node_idx_map THEN s
    ELSE IF v \notin DOMAIN s.node_idx_map THEN s
    ELSE LET u_idx == s.node_idx_map[u]
             v_idx == s.node_idx_map[v]
         IN  IF ~pg_contains_edge(s.g, u_idx, v_idx) THEN s
             ELSE IF <<u_idx, v_idx>> \notin DOMAIN s.edge_idx_map THEN Panic(s)
             ELSE LET edge_idx_list == s.edge_idx_map[<<u_idx, v_idx>>]
                  IN  IF ~remove_all_parallel
                      THEN IF p >= Len(edge_idx_list) THEN Panic(s)
                           ELSE IF ~EdgeLive(s.g, edge_idx_list[p + 1]) THEN Panic(s)
                           ELSE LET weight == s.g.edges[edge_idx_list[p + 1]].weight
                                    s1 == [s EXCEPT !.g = pg_remove_edge(s.g, edge_idx_list[p + 1])]
                                    s2 == swap_remove_entry(s1, <<v_idx, u_idx>>, p)
                                    s3 == swap_remove_entry(s2, <<u_idx, v_idx>>, p)
                                    s4 == change_node_opt_weight(s3, u_idx, -weight)
                                IN  change_node_opt_weight(s4, v_idx, -weight)
                      ELSE LET s1 == remove_all_loop(s, edge_idx_list, u_idx, v_idx)
                           IN  IF s1.panic THEN s1
                               ELSE [s1 EXCEPT !.edge_idx_map =
                                        MapDel(MapDel(s1.edge_idx_map, <<u_idx, v_idx>>),
                                               <<v_idx, u_idx>>)]

\* Graph::get_neighbors_idx: [ret, panic]
get_neighbors_idx(s, node) ==
    IF node \notin DOMAIN s.node_idx_map THEN [ret |-> <<>>, panic |-> TRUE]
    ELSE [ret |-> pg_neighbors_undirected(s.g, s.node_idx_map[node]), panic |-> FALSE]

\* Graph::get_neighbors: [ret, panic], the neighbours' names
get_neighbors(s, node) ==
    IF node \notin DOMAIN s.node_idx_map THEN [ret |-> <<>>, panic |-> TRUE]
    ELSE LET ns == pg_neighbors_undirected(s.g, s.node_idx_map[node])
         IN  [ret |-> [k \in 1..Len(ns) |-> s.g.nodes[ns[k]].name], panic |-> FALSE]

\* Graph::degree_of: [ret, panic]
degree_of(s, node) ==
    IF node \notin DOMAIN s.node_idx_map THEN [ret |-> 0, panic |-> FALSE]
    ELSE [ret |-> Len(pg_neighbors_undirected(s.g, s.node_idx_map[node])),
          panic |-> FALSE]

\* the loop of remove_node over the neighbours collected before it
RECURSIVE remove_node_loop(_, _, _)
remove_node_loop(s, name_u, neighbors) ==
    IF s.panic \/ neighbors = <<>> THEN s
    ELSE IF ~NodeLive(s.g, Head(neighbors)) THEN Panic(s)
    ELSE remove_node_loop(
            remove_edge(s, name_u, s.g.nodes[Head(neighbors)].name, 0, FALSE),
            name_u, Tail(neighbors))

\* Graph::remove_node
remove_node(s, node) ==
    IF ~NodeLive(s.g, node) THEN Panic(s)
    ELSE LET name_u == s.g.nodes[node].name
             nb == get_neighbors_idx(s, name_u)
         IN  IF nb.panic THEN Panic(s)
             ELSE LET s1 == remove_node_loop(s, name_u, nb.ret)
                  IN  IF s1.panic THEN s1
                      ELSE [s1 EXCEPT !.g = pg_remove_node(s1.g, node)]

\* Graph::get_order
get_order(s) == pg_node_count(s.g)

\* Graph::get_size
get_size(s) == pg_edge_count(s.g)


\* ---------------------------------------------------- the Graph's callers
Pairs == {{u, v} : u \in Keys, v \in Keys}

NoCall == [op |-> "new", u |-> "", v |-> "", w |-> 0, p |-> 0, all |-> FALSE,
           h |-> 0, eh |-> 0, ou |-> 0, ov |-> 0]

Touched == [ok |-> FALSE, ws |-> <<>>]

\* a key whose index entry names a live node
Existing(s, k) == k \in DOMAIN s.node_idx_map /\ NodeLive(s.g, s.node_idx_map[k])

weighted_degree(s, k) == s.g.nodes[s.node_idx_map[k]].optimal_weighted_degree

InBounds(s) == Len(s.g.nodes) <= MaxNodes /\ Len(s.g.edges) <= MaxEdges

\* One call on the Graph.  A call that returns normally and leaves the Graph as
\* it was does not show in the state.
Call(s, rec, plog) ==
    /\ ~panicked
    /\ ops < MaxOps
    /\ InBounds(s)
    /\ UNCHANGED pvars
    /\ IF s = Self
       THEN UNCHANGED gvars
       ELSE /\ g' = s.g
            /\ node_idx_map' = s.node_idx_map
            /\ edge_idx_map' = s.edge_idx_map
            /\ panicked' = s.panic
            /\ last' = rec
            /\ pairlog' = IF s.panic THEN pairlog ELSE plog
            /\ ops' = ops + 1

GraphInit ==
    /\ g = GraphNew.g
    /\ node_idx_map = GraphNew.node_idx_map
    /\ edge_idx_map = GraphNew.edge_idx_map
    /\ panicked = FALSE
    /\ last = NoCall
    /\ pairlog = [pr \in Pairs |-> [ok |-> TRUE, ws |-> <<>>]]
    /\ ops = 0

AddNode(name) ==
    LET s == add_node(Self, name)
    IN  Call(s, [NoCall EXCEPT !.op = "add_node", !.u = name, !.h = s.node_idx_map[name]],
             pairlog)

RemoveNode(node) ==
    Call(remove_node(Self, node),
         [NoCall EXCEPT !.op = "remove_node", !.h = node],
         IF NodeLive(g, node)
         THEN [pr \in Pairs |-> IF g.nodes[node].name \in pr THEN Touched ELSE pairlog[pr]]
         ELSE pairlog)

AddEdge(u, v, weight) ==
    LET s == add_edge(Self, u, v, weight)
        added == ~s.panic /\ s # Self
        l == Entry(s.edge_idx_map, <<s.node_idx_map[u], s.node_idx_map[v]>>)
    IN  Call(s,
             [NoCall EXCEPT !.op = "add_edge", !.u = u, !.v = v, !.w = weight,
                            !.eh = IF added THEN l[Len(l)] ELSE 0,
                            !.ou = IF added THEN weighted_degree(Self, u) ELSE 0,
                            !.ov = IF added THEN weighted_degree(Self, v) ELSE 0],
             IF pairlog[{u, v}].ok
             THEN [pairlog EXCEPT ![{u, v}].ws = Append(@, weight)]
             ELSE pairlog)

UpdateEdge(u, v, weight, p) ==
    Call(update_edge(Self, u, v, weight, p),
         [NoCall EXCEPT !.op = "update_edge", !.u = u, !.v = v, !.w = weight, !.p = p],
         [pairlog EXCEPT ![{u, v}] = Touched])

RemoveEdge(u, v, p, remove_all_parallel) ==
    Call(remove_edge(Self, u, v, p, remove_all_parallel),
         [NoCall EXCEPT
            !.op = "remove_edge", !.u = u, !.v = v, !.p = p, !.all = remove_all_parallel,
            !.eh = IF /\ ~remove_all_parallel
                      /\ u \in DOMAIN node_idx_map /\ v \in DOMAIN node_idx_map
                      /\ p < Len(Entry(edge_idx_map, <<node_idx_map[u], node_idx_map[v]>>))
                   THEN edge_idx_map[<<node_idx_map[u], node_idx_map[v]>>][p + 1]
                   ELSE 0],
         [pairlog EXCEPT ![{u, v}] = Touched])

\* A query cannot change the Graph: it shows in the state only when it panics.
Query(rec, r) ==
    /\ ~panicked
    /\ ops < MaxOps
    /\ UNCHANGED pvars
    /\ IF r.panic
       THEN /\ panicked' = TRUE
            /\ last' = rec
            /\ ops' = ops + 1
            /\ UNCHANGED <<g, node_idx_map, edge_idx_map, pairlog>>
       ELSE UNCHANGED gvars

GetEdgeWeight(u, v, p, get_all_parallel) ==
    Query([NoCall EXCEPT !.op = "get_edge_weight", !.u = u, !.v = v, !.p = p,
                         !.all = get_all_parallel],
          get_edge_weight(Self, u, v, p, get_all_parallel))

DegreeOf(node) ==
    Query([NoCall EXCEPT !.op = "degree_of", !.u = node], degree_of(Self, node))

GetNeighbors(node) ==
    Query([NoCall EXCEPT !.op = "get_neighbors", !.u = node], get_neighbors(Self, node))

GetNeighborsIdx(node) ==
    Query([NoCall EXCEPT !.op = "get_neighbors_idx", !.u = node],
          get_neighbors_idx(Self, node))

Next ==
    \/ \E name \in Keys : AddNode(name)
    \/ \E node \in NodeIx : RemoveNode(node)
    \/ \E u \in Keys, v \in Keys, weight \in Weights : AddEdge(u, v, weight)
    \/ \E u \in Keys, v \in Keys, weight \in Weights, p \in PIdx : UpdateEdge(u, v, weight, p)
    \/ \E u \in Keys, v \in Keys, p \in PIdx, f \in BOOLEAN : RemoveEdge(u, v, p, f)
    \/ \E u \in Keys, v \in Keys, p \in PIdx, f \in BOOLEAN : GetEdgeWeight(u, v, p, f)
    \/ \E node \in Keys : DegreeOf(node)
    \/ \E node \in Keys : GetNeighbors(node)
    \/ \E node \in Keys : GetNeighborsIdx(node)

\* ------------------------------------------------ ipc/helpers.rs: state
Free == <<"free", 0>>

NoSession == [present |-> FALSE, id |-> 0, status |-> "Disconnected"]

\* a decoded message, by what the packet handler makes of it
NoMessage == [payload |-> FALSE, handler_err |-> FALSE, device_updated |-> FALSE,
              regenerate_graph |-> FALSE, configuration_complete |-> FALSE,
              notification |-> FALSE]

Messages ==
    [payload : {TRUE}, handler_err : {FALSE}, device_updated : BOOLEAN,
     regenerate_graph : BOOLEAN, configuration_complete : BOOLEAN,
     notification : BOOLEAN]
    \cup {[NoMessage EXCEPT !.payload = TRUE, !.handler_err = TRUE]}

\* a connection attempt before initialize_serial_connection_handlers is called
NoConn == [port |-> "", setup |-> "idle", status |-> "Disconnected",
           timeout |-> "none", decode |-> "none", closed |-> FALSE]

PipeInit ==
    /\ connected_devices = [p \in Ports |-> NoSession]
    /\ mesh_graph = "None"
    /\ devices_lock = Free
    /\ graph_lock = Free
    /\ conn = [c \in Conns |-> NoConn]
    /\ notes = EmptyBag
    /\ cfg_done = {}
    /\ missed = {}

\* events::dispatch_*, Notification::notify: an external call and the locks held
\* by the calling task when it is made
External(kind, ok, devices_locked, graph_locked) ==
    [kind |-> kind, ok |-> ok, devices_locked |-> devices_locked,
     graph_locked |-> graph_locked]

\* dispatch_configuration_status(port_name, successful): the notification, the
\* session registered under the port when it is sent, and the sending task
Note(port, successful, by) ==
    SetToBag({[port |-> port, successful |-> successful,
               session |-> connected_devices[port].id, by |-> by]})

\* ------------------------------------- initialize_graph_state (lines 81-101)
\* mesh_graph_arc.lock().await; *guard = Some(new_graph); the guard is dropped
InitializeGraphState ==
    /\ graph_lock = Free
    /\ mesh_graph' = "New"
    /\ UNCHANGED <<gvars, missed>>
    /\ UNCHANGED <<connected_devices, devices_lock, graph_lock, conn, notes, cfg_done>>

\* ---------------------- initialize_serial_connection_handlers (lines 103-150)
\* device.set_status(Connecting); device.connection.connect(..).await?  and the
\* listener's resubscribe.  conn[c].status is the status of the local device.
\* (connection attempts are numbered in the order they begin)
Connect(c, port, ok) ==
    /\ conn[c].setup = "idle"
    /\ \A b \in Conns : b < c => conn[b].setup # "idle"
    /\ conn' = [conn EXCEPT ![c].port = port, ![c].status = "Connecting",
                            ![c].setup = IF ok THEN "Connecting" ELSE "failed"]
    /\ UNCHANGED <<gvars, missed>>
    /\ UNCHANGED <<connected_devices, mesh_graph, devices_lock, graph_lock, notes,
                   cfg_done>>

\* device.set_status(Configuring); device.connection.configure(..).await?
Configure(c, ok) ==
    /\ conn[c].setup = "Connecting"
    /\ conn' = [conn EXCEPT ![c].status = "Configuring",
                            ![c].setup = IF ok THEN "Configuring" ELSE "failed"]
    /\ UNCHANGED <<gvars, missed>>
    /\ UNCHANGED <<connected_devices, mesh_graph, devices_lock, graph_lock, notes,
                   cfg_done>>

\* devices_guard.insert(port_name, device), under the registry lock
SaveDevice(c) ==
    /\ conn[c].setup = "Configuring"
    /\ devices_lock = Free
    /\ connected_devices' = [connected_devices EXCEPT ![conn[c].port] =
                                [present |-> TRUE, id |-> c, status |-> conn[c].status]]
    /\ conn' = [conn EXCEPT ![c].setup = "saved"]
    /\ cfg_done' = cfg_done \ {conn[c].port}
    /\ UNCHANGED <<gvars, missed>>
    /\ UNCHANGED <<mesh_graph, devices_lock, graph_lock, notes>>

\* the spawns as they would be if made before the device is saved
SpawnHandlers_before_insert(c) ==
    /\ conn[c].setup = "Configuring"
    /\ conn' = [conn EXCEPT ![c].setup = "done", ![c].timeout = "sleeping",
                            ![c].decode = "recv"]
    /\ UNCHANGED <<gvars, missed>>
    /\ UNCHANGED <<connected_devices, mesh_graph, devices_lock, graph_lock, notes,
                   cfg_done>>

\* spawn_connection_timeout_handler(..); spawn_decoded_handler(..)
SpawnHandlers(c) ==
    /\ conn[c].setup = "saved"
    /\ conn' = [conn EXCEPT ![c].setup = "done", ![c].timeout = "sleeping",
                            ![c].decode = "recv"]
    /\ UNCHANGED <<gvars, missed>>
    /\ UNCHANGED <<connected_devices, mesh_graph, devices_lock, graph_lock, notes,
                   cfg_done>>

\* --------------------------- spawn_connection_timeout_handler (lines 152-203)
\* tokio::time::sleep(1500 ms) is over; the task now waits for the registry lock
TimeoutElapsed(c) ==
    /\ conn[c].timeout = "sleeping"
    /\ conn' = [conn EXCEPT ![c].timeout = "lock_devices"]
    /\ UNCHANGED <<gvars, missed>>
    /\ UNCHANGED <<connected_devices, mesh_graph, devices_lock, graph_lock, notes,
                   cfg_done>>

\* the guard as it would be without the test of the status
timeout_handler_no_check(device, dispatch_ok) ==
    IF ~device.present THEN [dispatch |-> FALSE, end |-> "done"]
    ELSE [dispatch |-> TRUE, end |-> IF dispatch_ok THEN "done" ELSE "panicked"]

\* what the guard does once it holds the registry lock (lines 166-201), given the
\* session found under its port and whether the dispatch succeeds:
\* [dispatch, end]
timeout_handler(device, dispatch_ok) ==
    IF ~device.present THEN [dispatch |-> FALSE, end |-> "done"]
    ELSE IF device.status # "Configuring" THEN [dispatch |-> FALSE, end |-> "done"]
    ELSE [dispatch |-> TRUE, end |-> IF dispatch_ok THEN "done" ELSE "panicked"]

\* the guard takes the registry lock, looks its port up, acts, and drops the lock
TimeoutRun(c, dispatch_ok) ==
    /\ conn[c].timeout = "lock_devices"
    /\ devices_lock = Free
    /\ LET device == connected_devices[conn[c].port]
           r == timeout_handler(device, dispatch_ok)
       IN  /\ conn' = [conn EXCEPT ![c].timeout = r.end]
           /\ notes' = IF r.dispatch /\ dispatch_ok
                       THEN notes (+) Note(conn[c].port, FALSE, <<"timeout", c>>)
                       ELSE notes
           /\ missed' = IF device.present THEN missed ELSE missed \cup {"timeout"}
    /\ UNCHANGED gvars
    /\ UNCHANGED <<connected_devices, mesh_graph, devices_lock, graph_lock, cfg_done>>

\* ------------------------------------- spawn_decoded_handler (lines 205-307)
\* MeshDevice::handle_packet_from_radio: [err, device, result].  On the
\* configuration-complete signal a Configuring session becomes Configured.
handle_packet_from_radio(device, message) ==
    IF message.handler_err
    THEN [err |-> TRUE, device |-> device,
          result |-> [device_updated |-> FALSE, regenerate_graph |-> FALSE,
                      configuration_success |-> FALSE, notification_config |-> FALSE]]
    ELSE [err |-> FALSE,
          device |-> IF message.configuration_complete /\ device.status = "Configuring"
                     THEN [device EXCEPT !.status = "Configured"]
                     ELSE device,
          result |-> [device_updated |-> message.device_updated,
                      regenerate_graph |-> message.regenerate_graph,
                      configuration_success |-> message.configuration_complete,
                      notification_config |-> message.notification]]

\* the loop body as it would be without the test of the status at line 273
decode_handler_no_status_test(device, graph, message, oks) ==
    LET h  == handle_packet_from_radio(device, message)
        ur == h.result
        d1 == h.device
        \* lines 250-258
        c1 == IF ur.device_updated THEN {External("updated_device", oks.device, TRUE, TRUE)}
              ELSE {}
        stop1 == ur.device_updated /\ ~oks.device
        \* lines 260-270
        g2 == IF ur.regenerate_graph THEN "Regenerated" ELSE graph
        c2 == IF ur.regenerate_graph
              THEN c1 \cup {External("updated_edges", oks.edges, TRUE, TRUE)} ELSE c1
        stop2 == ur.regenerate_graph /\ ~oks.edges
        \* lines 272-290
        succ == ur.configuration_success
        c3 == IF succ THEN c2 \cup {External("configuration_status", oks.status, TRUE, TRUE)}
              ELSE c2
        d3 == IF succ /\ oks.status THEN [d1 EXCEPT !.status = "Connected"] ELSE d1
        \* lines 292-304
        c4 == IF ur.notification_config
              THEN c3 \cup {External("notification", oks.notify, TRUE, TRUE)} ELSE c3
    IN  IF h.err
        THEN [device |-> device, graph |-> graph, calls |-> {}, success |-> FALSE,
              end |-> "recv"]
        ELSE IF stop1
        THEN [device |-> d1, graph |-> graph, calls |-> c1, success |-> FALSE,
              end |-> "recv"]
        ELSE IF stop2
        THEN [device |-> d1, graph |-> g2, calls |-> c2, success |-> FALSE,
              end |-> "recv"]
        ELSE IF succ /\ ~oks.status
        THEN [device |-> d1, graph |-> g2, calls |-> c3, success |-> FALSE,
              end |-> "panicked"]
        ELSE [device |-> d3, graph |-> g2, calls |-> c4, success |-> succ,
              end |-> "recv"]

\* The loop body from line 242 to the end of the iteration, both locks held:
\* [device, graph, calls, success, end].  oks says which forwarding calls succeed.
decode_handler(device, graph, message, oks) ==
    LET h  == handle_packet_from_radio(device, message)
        ur == h.result
        d1 == h.device
        \* lines 250-258
        c1 == IF ur.device_updated THEN {External("updated_device", oks.device, TRUE, TRUE)}
              ELSE {}
        stop1 == ur.device_updated /\ ~oks.device
        \* lines 260-270
        g2 == IF ur.regenerate_graph THEN "Regenerated" ELSE graph
        c2 == IF ur.regenerate_graph
              THEN c1 \cup {External("updated_edges", oks.edges, TRUE, TRUE)} ELSE c1
        stop2 == ur.regenerate_graph /\ ~oks.edges
        \* lines 272-290
        succ == ur.configuration_success /\ d1.status = "Configured"
        c3 == IF succ THEN c2 \cup {External("configuration_status", oks.status, TRUE, TRUE)}
              ELSE c2
        d3 == IF succ /\ oks.status THEN [d1 EXCEPT !.status = "Connected"] ELSE d1
        \* lines 292-304
        c4 == IF ur.notification_config
              THEN c3 \cup {External("notification", oks.notify, TRUE, TRUE)} ELSE c3
    IN  IF h.err
        THEN [device |-> device, graph |-> graph, calls |-> {}, success |-> FALSE,
              end |-> "recv"]
        ELSE IF stop1
        THEN [device |-> d1, graph |-> graph, calls |-> c1, success |-> FALSE,
              end |-> "recv"]
        ELSE IF stop2
        THEN [device |-> d1, graph |-> g2, calls |-> c2, success |-> FALSE,
              end |-> "recv"]
        ELSE IF succ /\ ~oks.status
        THEN [device |-> d1, graph |-> g2, calls |-> c3, success |-> FALSE,
              end |-> "panicked"]
        ELSE [device |-> d3, graph |-> g2, calls |-> c4, success |-> succ,
              end |-> "recv"]

\* decoded_listener.recv().await returns a message; one without payload is
\* skipped.  What the payload holds is read only by the packet handler, so it
\* is drawn where the handler runs.
DecodeRecv(c, payload) ==
    /\ conn[c].decode = "recv"
    /\ ~conn[c].closed
    /\ conn' = [conn EXCEPT ![c].decode = IF payload THEN "lock_devices" ELSE "recv"]
    /\ UNCHANGED <<gvars, missed>>
    /\ UNCHANGED <<connected_devices, mesh_graph, devices_lock, graph_lock, notes,
                   cfg_done>>

\* recv() returns Err once the channel is closed: the loop and the task end
DecodeClosed(c) ==
    /\ conn[c].decode = "recv"
    /\ conn[c].closed
    /\ conn' = [conn EXCEPT ![c].decode = "done"]
    /\ UNCHANGED <<gvars, missed>>
    /\ UNCHANGED <<connected_devices, mesh_graph, devices_lock, graph_lock, notes,
                   cfg_done>>

\* the same with the registry guard kept when no session is found
DecodeLockDevices_keeps_guard(c) ==
    /\ conn[c].decode = "lock_devices"
    /\ devices_lock = Free
    /\ IF connected_devices[conn[c].port].present
       THEN /\ devices_lock' = <<"decode", c>>
            /\ conn' = [conn EXCEPT ![c].decode = "lock_graph"]
       ELSE /\ devices_lock' = <<"decode", c>>
            /\ conn' = [conn EXCEPT ![c].decode = "lock_graph"]
    /\ missed' = IF connected_devices[conn[c].port].present THEN missed
                 ELSE missed \cup {"decode"}
    /\ UNCHANGED gvars
    /\ UNCHANGED <<connected_devices, mesh_graph, graph_lock, notes, cfg_done>>

\* connected_devices_arc.lock().await and the look-up of the port (lines 221-231)
DecodeLockDevices(c) ==
    /\ conn[c].decode = "lock_devices"
    /\ devices_lock = Free
    /\ IF connected_devices[conn[c].port].present
       THEN /\ devices_lock' = <<"decode", c>>
            /\ conn' = [conn EXCEPT ![c].decode = "lock_graph"]
       ELSE /\ devices_lock' = Free
            /\ conn' = [conn EXCEPT ![c].decode = "recv"]
    /\ missed' = IF connected_devices[conn[c].port].present THEN missed
                 ELSE missed \cup {"decode"}
    /\ UNCHANGED gvars
    /\ UNCHANGED <<connected_devices, mesh_graph, graph_lock, notes, cfg_done>>

\* the same with the registry guard kept when the graph is not initialised
DecodeLockGraph_keeps_registry(c) ==
    /\ conn[c].decode = "lock_graph"
    /\ graph_lock = Free
    /\ IF mesh_graph # "None"
       THEN /\ graph_lock' = <<"decode", c>>
            /\ devices_lock' = devices_lock
            /\ conn' = [conn EXCEPT ![c].decode = "handle"]
       ELSE /\ graph_lock' = Free
            /\ devices_lock' = devices_lock
            /\ conn' = [conn EXCEPT ![c].decode = "recv"]
    /\ UNCHANGED <<gvars, missed>>
    /\ UNCHANGED <<connected_devices, mesh_graph, notes, cfg_done>>

\* the same with the registry guard given up when the graph lock is taken
DecodeLockGraph_drops_registry(c) ==
    /\ conn[c].decode = "lock_graph"
    /\ graph_lock = Free
    /\ IF mesh_graph # "None"
       THEN /\ graph_lock' = <<"decode", c>>
            /\ devices_lock' = Free
            /\ conn' = [conn EXCEPT ![c].decode = "handle"]
       ELSE /\ graph_lock' = Free
            /\ devices_lock' = Free
            /\ conn' = [conn EXCEPT ![c].decode = "recv"]
    /\ UNCHANGED <<gvars, missed>>
    /\ UNCHANGED <<connected_devices, mesh_graph, notes, cfg_done>>

\* graph_arc.lock().await and the test of the Option (lines 233-240)
DecodeLockGraph(c) ==
    /\ conn[c].decode = "lock_graph"
    /\ graph_lock = Free
    /\ IF mesh_graph # "None"
       THEN /\ graph_lock' = <<"decode", c>>
            /\ devices_lock' = devices_lock
            /\ conn' = [conn EXCEPT ![c].decode = "handle"]
       ELSE /\ graph_lock' = Free
            /\ devices_lock' = Free
            /\ conn' = [conn EXCEPT ![c].decode = "recv"]
    /\ UNCHANGED <<gvars, missed>>
    /\ UNCHANGED <<connected_devices, mesh_graph, notes, cfg_done>>

\* the rest of the iteration (lines 242-305); both guards are dropped at its end,
\* also when an expect() panics
DecodeHandle(c, message, oks) ==
    /\ conn[c].decode = "handle"
    /\ LET port == conn[c].port
           device == connected_devices[port]
           r == decode_handler(device, mesh_graph, message, oks)
       IN  /\ connected_devices' = [connected_devices EXCEPT ![port] = r.device]
           /\ mesh_graph' = r.graph
           /\ notes' = IF r.success THEN notes (+) Note(port, TRUE, <<"decode", c>>)
                       ELSE notes
           /\ cfg_done' = IF ~message.handler_err /\ message.configuration_complete
                          THEN cfg_done \cup {port} ELSE cfg_done
           /\ conn' = [conn EXCEPT ![c].decode = r.end]
    /\ devices_lock' = Free
    /\ graph_lock' = Free
    /\ UNCHANGED <<gvars, missed>>

\* Disconnect: the session registered under the port is destroyed and its event
\* channel closes.
Disconnect(port) ==
    /\ devices_lock = Free
    /\ connected_devices[port].present
    /\ connected_devices' = [connected_devices EXCEPT ![port] = NoSession]
    /\ conn' = [conn EXCEPT ![connected_devices[port].id].closed = TRUE]
    /\ cfg_done' = cfg_done \ {port}
    /\ UNCHANGED <<gvars, missed>>
    /\ UNCHANGED <<mesh_graph, devices_lock, graph_lock, notes>>

\* which forwarding calls succeed: the iteration ends at the first one that fails,
\* so the outcomes are told apart by the first call to fail, if any
OksAll == {[device |-> f # "device", edges |-> f # "edges", status |-> f # "status",
         notify |-> f # "notify"] : f \in {"none", "device", "edges", "status", "notify"}}

\* only a call the message leads to can fail
Oks(message) ==
    {o \in OksAll :
        /\ ~o.device => message.device_updated
        /\ ~o.edges => message.regenerate_graph
        /\ ~o.status => message.configuration_complete
        /\ ~o.notify => message.notification}

PipeNext ==
    \/ InitializeGraphState
    \/ \E c \in Conns, port \in Ports, ok \in BOOLEAN : Connect(c, port, ok)
    \/ \E c \in Conns, ok \in BOOLEAN : Configure(c, ok)
    \/ \E c \in Conns : SaveDevice(c)
    \/ \E c \in Conns : SpawnHandlers(c)
    \/ \E c \in Conns : TimeoutElapsed(c)
    \/ \E c \in Conns, ok \in BOOLEAN : TimeoutRun(c, ok)
    \/ \E c \in Conns, payload \in BOOLEAN : DecodeRecv(c, payload)
    \/ \E c \in Conns : DecodeClosed(c)
    \/ \E c \in Conns : DecodeLockDevices(c)
    \/ \E c \in Conns : DecodeLockGraph(c)
    \/ \E c \in Conns, message \in Messages :
          \E oks \in Oks(message) : DecodeHandle(c, message, oks)
    \/ \E port \in Ports : Disconnect(port)

\* -------------------------------------------------------- specifications
vars == <<gvars, pvars>>

Init == GraphInit /\ PipeInit

\* the Graph under any sequence of calls
Spec == Init /\ [][Next]_vars

\* the connection tasks under any interleaving
PipeSpec == Init /\ [][PipeNext]_vars

\* at most MaxFairConns connection attempts have begun
FairScope == \A c \in Conns : c > MaxFairConns => conn[c].setup = "idle"

PipeFairNext ==
    \/ InitializeGraphState /\ FairScope'
    \/ \E c \in Conns, port \in Ports, ok \in BOOLEAN : Connect(c, port, ok) /\ FairScope'
    \/ \E c \in Conns, ok \in BOOLEAN : Configure(c, ok) /\ FairScope'
    \/ \E c \in Conns : SaveDevice(c) /\ FairScope'
    \/ \E c \in Conns : SpawnHandlers(c) /\ FairScope'
    \/ \E c \in Conns : TimeoutElapsed(c) /\ FairScope'
    \/ \E c \in Conns, ok \in BOOLEAN : TimeoutRun(c, ok) /\ FairScope'
    \/ \E c \in Conns, payload \in BOOLEAN : DecodeRecv(c, payload) /\ FairScope'
    \/ \E c \in Conns : DecodeClosed(c) /\ FairScope'
    \/ \E c \in Conns : DecodeLockDevices(c) /\ FairScope'
    \/ \E c \in Conns : DecodeLockGraph(c) /\ FairScope'
    \/ \E c \in Conns, message \in Messages :
          \E oks \in Oks(message) : DecodeHandle(c, message, oks) /\ FairScope'
    \/ \E port \in Ports : Disconnect(port) /\ FairScope'

\* The connection tasks under fair scheduling.  The runtime polls every task
\* that can run, the timer of the sleep fires, and tokio's Mutex hands the lock
\* to its waiters in the order they asked, so a task waiting for a lock that is
\* free again and again gets it.
PipeFair ==
    /\ Init /\ [][PipeFairNext]_vars
    /\ \A c \in 1..MaxFairConns :
          /\ WF_vars(TimeoutElapsed(c))
          /\ SF_vars(\E ok \in BOOLEAN : TimeoutRun(c, ok))
          /\ SF_vars(DecodeLockDevices(c))
          /\ SF_vars(DecodeLockGraph(c))
          /\ WF_vars(\E message \in Messages :
                        \E oks \in Oks(message) : DecodeHandle(c, message, oks))
          /\ WF_vars(DecodeClosed(c))


\* ------------------------------------------------------ claims: the Graph
\* the Graph after the step
SelfP == [g |-> g', node_idx_map |-> node_idx_map', edge_idx_map |-> edge_idx_map',
          panic |-> FALSE]

Range(s) == {s[i] : i \in 1..Len(s)}

\* the live edges joining handles a and b, in either direction
EdgesBetween(gr, a, b) ==
    {e \in 1..Len(gr.edges) :
        /\ gr.edges[e].live
        /\ \/ (gr.edges[e].src = a /\ gr.edges[e].dst = b)
           \/ (gr.edges[e].src = b /\ gr.edges[e].dst = a)}

\* the live edges with an end at handle a
EdgesAt(gr, a) ==
    {e \in 1..Len(gr.edges) :
        gr.edges[e].live /\ (gr.edges[e].src = a \/ gr.edges[e].dst = a)}

\* C1: index symmetry.  In every reachable state, for every pair of node
\* handles (A,B), the edge handles listed under (A,B) are exactly those listed
\* under (B,A).
C1_IndexSymmetry ==
    \A a \in NodeIx, b \in NodeIx :
        Range(Entry(edge_idx_map, <<a, b>>)) = Range(Entry(edge_idx_map, <<b, a>>))

\* C1 witness: a single edge has just been removed from a pair of distinct
\* nodes that still has a parallel edge listed in both directions.
C1_Witness ==
    /\ last.op = "remove_edge" /\ ~last.all /\ ~panicked
    /\ \E a \in NodeIx, b \in NodeIx :
          /\ a # b
          /\ Entry(edge_idx_map, <<a, b>>) # <<>>
          /\ Entry(edge_idx_map, <<b, a>>) # <<>>

\* C2: add_edge(u,v,w) on existing keys u # v raises weighted_degree(u) and
\* weighted_degree(v) each by exactly 2w over their values before the call.
C2_AddEdgeRaisesDegreeBy2w ==
    [][(/\ last'.op = "add_edge" /\ ops' = ops + 1
        /\ last'.u # last'.v
        /\ Existing(Self, last'.u) /\ Existing(Self, last'.v))
       => /\ ~panicked'
          /\ weighted_degree(SelfP, last'.u) = weighted_degree(Self, last'.u) + 2 * last'.w
          /\ weighted_degree(SelfP, last'.v) = weighted_degree(Self, last'.v) + 2 * last'.w]_vars

\* C3: add_edge(u,v,w) immediately followed by remove_edge of that same edge
\* returns weighted_degree(u) and weighted_degree(v) to their values before
\* the add_edge.
C3_RemoveUndoesAdd ==
    [][(/\ last.op = "add_edge" /\ last.eh # 0 /\ last.u # last.v
        /\ last'.op = "remove_edge" /\ ops' = ops + 1
        /\ ~last'.all /\ last'.eh = last.eh
        /\ {last'.u, last'.v} = {last.u, last.v})
       => /\ ~panicked'
          /\ weighted_degree(SelfP, last.u) = last.ou
          /\ weighted_degree(SelfP, last.v) = last.ov]_vars

\* C4: when the only calls on the pair u # v were k >= 1 add_edge calls with
\* weights w1..wk, get_edge_weight(u,v,0,false) is w1+...+wk and
\* get_edge_weight(u,v,i,true) is the weight of the i-th added edge.
C4_ParallelEdgeWeights ==
    \A u \in Keys, v \in Keys :
        (u # v /\ ~panicked /\ pairlog[{u, v}].ok /\ pairlog[{u, v}].ws # <<>>)
        => LET ws == pairlog[{u, v}].ws
           IN  /\ get_edge_weight(Self, u, v, 0, FALSE) = [ret |-> SumSeq(ws), panic |-> FALSE]
               /\ \A i \in 1..Len(ws) :
                     get_edge_weight(Self, u, v, i - 1, TRUE) = [ret |-> ws[i], panic |-> FALSE]

\* C5: after any sequence of add_node calls alone, get_order() is the number
\* of distinct keys added.  (Only add_node grows the node vector, by one slot
\* a call, so Len(g.nodes) = ops says every call so far was an add_node.)
C5_OrderIsDistinctKeys ==
    (Len(g.nodes) = ops) => get_order(Self) = Cardinality(DOMAIN node_idx_map)

\* C6: remove_node(h) on a live node completes, get_size() drops by the number
\* of edges incident to h, and for every other key n naming a live node,
\* degree_of(n) drops by the number of edges that joined n and h.
C6_RemoveNodeRemovesIncidentEdges ==
    [][(/\ last'.op = "remove_node" /\ ops' = ops + 1
        /\ NodeLive(g, last'.h))
       => /\ ~panicked'
          /\ get_size(SelfP) = get_size(Self) - Cardinality(EdgesAt(g, last'.h))
          /\ \A n \in Keys :
                (Existing(Self, n) /\ node_idx_map[n] # last'.h)
                => degree_of(SelfP, n).ret =
                      degree_of(Self, n).ret
                        - Cardinality(EdgesBetween(g, node_idx_map[n], last'.h))]_vars

\* C7: no public operation of the Graph panics, whatever key, handle or
\* parallel index it is given.
C7_NeverPanics == ~panicked

\* C8: update_edge(u,v,w,i) on a pair u # v that has edges, i within the pair's list,
\* completes, makes get_edge_weight(u,v,i,true) = w, leaves the weight of every
\* other edge as it was, and leaves get_size() as it was.
C8_UpdateChangesOnlyThatEdge ==
    [][(/\ last'.op = "update_edge" /\ ops' = ops + 1
        /\ last'.u # last'.v
        /\ Existing(Self, last'.u) /\ Existing(Self, last'.v)
        /\ pg_contains_edge(g, node_idx_map[last'.u], node_idx_map[last'.v])
        /\ last'.p < Len(Entry(edge_idx_map,
                               <<node_idx_map[last'.u], node_idx_map[last'.v]>>)))
       => LET target == edge_idx_map[<<node_idx_map[last'.u],
                                       node_idx_map[last'.v]>>][last'.p + 1]
          IN  /\ ~panicked'
              /\ get_edge_weight(SelfP, last'.u, last'.v, last'.p, TRUE)
                    = [ret |-> last'.w, panic |-> FALSE]
              /\ \A e \in 1..Len(g.edges) :
                    (g.edges[e].live /\ e # target)
                    => (g'.edges[e].live /\ g'.edges[e].weight = g.edges[e].weight)
              /\ get_size(SelfP) = get_size(Self)]_vars

\* C9: remove_edge(u,v,_,remove_all=true) on existing nodes joined by k >= 1
\* edges completes, get_size() drops by exactly k, no edge joins u and v
\* afterwards, neither (u,v) nor (v,u) has an index entry, and every other edge
\* is as it was.
C9_RemoveAllParallel ==
    [][(/\ last'.op = "remove_edge" /\ last'.all /\ ops' = ops + 1
        /\ Existing(Self, last'.u) /\ Existing(Self, last'.v)
        /\ EdgesBetween(g, node_idx_map[last'.u], node_idx_map[last'.v]) # {})
       => LET a == node_idx_map[last'.u]
              b == node_idx_map[last'.v]
          IN  /\ ~panicked'
              /\ get_size(SelfP) = get_size(Self) - Cardinality(EdgesBetween(g, a, b))
              /\ EdgesBetween(g', a, b) = {}
              /\ <<a, b>> \notin DOMAIN edge_idx_map'
              /\ <<b, a>> \notin DOMAIN edge_idx_map'
              /\ \A e \in 1..Len(g.edges) :
                    (g.edges[e].live /\ e \notin EdgesBetween(g, a, b))
                    => g'.edges[e] = g.edges[e]]_vars

\* ------------------------------------------- claims: the connection tasks
\* C10: success before timeout.  Whenever a timeout guard takes the registry
\* lock and the session it finds under its port has already had the
\* configuration-complete signal processed by the decode loop, the guard finds
\* a status other than Configuring and ends without dispatching a notification
\* and without changing the registry.
C10_SuccessBeforeTimeout ==
    [][\A c \in Conns :
          (/\ conn[c].timeout = "lock_devices"
           /\ conn'[c].timeout # "lock_devices"
           /\ connected_devices[conn[c].port].present
           /\ conn[c].port \in cfg_done)
          => /\ connected_devices[conn[c].port].status # "Configuring"
             /\ conn'[c].timeout = "done"
             /\ notes' = notes
             /\ connected_devices' = connected_devices]_vars

\* C10 witness: a guard has run and ended without a notification while its own
\* session, still registered, had completed configuration.
C10_Witness ==
    \E c \in Conns :
        /\ conn[c].timeout = "done"
        /\ connected_devices[conn[c].port] \in
              {[present |-> TRUE, id |-> c, status |-> st] : st \in {"Configured", "Connected"}}
        /\ conn[c].port \in cfg_done
        /\ \A n \in BagToSet(notes) : n.by # <<"timeout", c>>

\* C11: timeout before success.  Once a timeout guard has told the UI that the
\* configuration of a session failed, that session is never notified as
\* successfully configured, is never Connected, and has exactly one failure
\* notification.
C11_TimeoutBeforeSuccess ==
    \A n \in BagToSet(notes) :
        ~n.successful
        => /\ CopiesIn(n, notes) = 1
           /\ \A k \in BagToSet(notes) :
                 (k.port = n.port /\ k.session = n.session) => ~k.successful
           /\ connected_devices[n.port].id = n.session
              => connected_devices[n.port].status # "Connected"

\* C12: the decode loop makes no external call while it holds the graph lock:
\* whenever the loop is about to run the body of an iteration, whatever the
\* message and the outcomes of the calls, every forwarding call the body makes
\* is made with the graph lock not held by the loop.
C12_NoGraphLockOverExternalCall ==
    \A c \in Conns :
        conn[c].decode = "handle"
        => \A message \in Messages :
              \A oks \in Oks(message) :
                 LET r == decode_handler(connected_devices[conn[c].port], mesh_graph,
                                         message, oks)
                 IN  r.calls # {}
                     => /\ graph_lock # <<"decode", c>>
                        /\ \A x \in r.calls : ~x.graph_locked

\* C13: lock ordering and deadlock freedom.  A task holding the graph lock
\* holds the registry lock too, having taken it first; only decode loops ever
\* hold a lock across steps, and a decode loop waiting for the registry lock does
\* not hold the graph lock; and whoever holds a lock can always take its next
\* step, so no task waits on a lock for ever held.
C13_LockOrder ==
    /\ devices_lock \in {Free} \cup {<<"decode", c>> : c \in Conns}
    /\ graph_lock \in {Free} \cup {<<"decode", c>> : c \in Conns}
    /\ \A c \in Conns :
          /\ graph_lock = <<"decode", c>>
             => devices_lock = <<"decode", c>> /\ conn[c].decode = "handle"
          /\ devices_lock = <<"decode", c>>
             => /\ conn[c].decode \in {"lock_graph", "handle"}
                /\ ENABLED (DecodeLockGraph(c)
                            \/ \E message \in Messages :
                                  \E oks \in Oks(message) : DecodeHandle(c, message, oks))
          /\ conn[c].decode = "lock_devices" => graph_lock # <<"decode", c>>

\* C13 witness: a decode loop holds both locks while another connection's
\* guard or decode loop waits for the registry lock.
C13_Witness ==
    \E c \in Conns, d \in Conns :
        /\ c # d
        /\ devices_lock = <<"decode", c>>
        /\ graph_lock = <<"decode", c>>
        /\ conn[d].timeout = "lock_devices" \/ conn[d].decode = "lock_devices"

\* C14: a failed dispatch never ends a task.  No decode loop and no timeout
\* guard is ever terminated by a panic; after a failed forwarding call the
\* decode loop is back at recv() with both locks released.
C14_DispatchFailureNonFatal ==
    \A c \in Conns :
        /\ conn[c].decode # "panicked"
        /\ conn[c].timeout # "panicked"
        /\ conn[c].decode = "handle"
           => \A message \in Messages :
                 \A oks \in Oks(message) :
                    decode_handler(connected_devices[conn[c].port], mesh_graph,
                                   message, oks).end = "recv"

\* C15: when forwarding fails for one facet of an event, the rest of the
\* event's side effects are still carried out: if forwarding the updated device
\* record fails, the graph is still regenerated when regenerate_graph is set,
\* and a session that is Configured after the handler is still notified of
\* success and becomes Connected when configuration_success is set.
C15_RemainingSideEffectsAttempted ==
    \A c \in Conns :
        conn[c].decode = "handle"
        => \A message \in Messages :
              \A oks \in Oks(message) :
                 LET device == connected_devices[conn[c].port]
                     h == handle_packet_from_radio(device, message)
                     r == decode_handler(device, mesh_graph, message, oks)
                 IN  (~h.err /\ h.result.device_updated /\ ~oks.device)
                     => /\ h.result.regenerate_graph => r.graph = "Regenerated"
                        /\ (h.result.configuration_success /\ h.device.status = "Configured")
                           => r.success /\ r.device.status = "Connected"

\* C16: a success notification is dispatched only by an iteration whose update
\* result has configuration_success set and whose session is Configured after
\* the handler, and that iteration sets the status to Connected; a status
\* becomes Connected only in a step that dispatches a success notification for a
\* session that was not yet Connected; a status becomes Configuring only when a
\* new session is registered; and no session has two success notifications.
C16_SuccessNotification ==
    /\ [](\A c \in Conns :
            conn[c].decode = "handle"
            => \A message \in Messages :
                  \A oks \in Oks(message) :
                     LET device == connected_devices[conn[c].port]
                         h == handle_packet_from_radio(device, message)
                         r == decode_handler(device, mesh_graph, message, oks)
                     IN  /\ r.success
                            => /\ h.result.configuration_success
                               /\ h.device.status = "Configured"
                               /\ r.device.status = "Connected"
                         /\ (r.device.status = "Connected" /\ device.status # "Connected")
                            => r.success /\ device.status \in {"Configuring", "Configured"}
                         /\ r.device.status = "Configuring" => device.status = "Configuring")
    /\ [](\A n \in BagToSet(notes), k \in BagToSet(notes) :
            (n.successful /\ k.successful /\ n.port = k.port /\ n.session = k.session)
            => n = k /\ CopiesIn(n, notes) = 1)
    /\ [][\A p \in Ports :
            /\ (connected_devices'[p].status = "Connected"
                /\ connected_devices[p].status # "Connected")
               => /\ connected_devices'[p].id = connected_devices[p].id
                  /\ \E n \in BagToSet(notes') :
                        /\ n.successful /\ n.port = p
                        /\ n.session = connected_devices[p].id
                        /\ CopiesIn(n, notes') = CopiesIn(n, notes) + 1
            /\ (connected_devices'[p].status = "Configuring"
                /\ connected_devices[p] # connected_devices'[p])
               => \E c \in Conns :
                     /\ conn[c].setup = "Configuring" /\ conn'[c].setup = "saved"
                     /\ connected_devices'[p].id = c]_vars

\* C16 witness: a session is Connected and its success notification was sent.
C16_Witness ==
    \E n \in BagToSet(notes) :
        /\ n.successful
        /\ connected_devices[n.port] =
              [present |-> TRUE, id |-> n.session, status |-> "Connected"]

\* C17: every event that carries a payload and finds its session registered
\* reaches the packet handler, once, with the registry lock held, whatever the
\* state of the shared graph: the step that follows the look-up of the session
\* always leads to the handler.
C17_HandlerRunsOncePerEvent ==
    [][\A c \in Conns :
          (conn[c].decode = "lock_graph" /\ conn'[c].decode # "lock_graph")
          => /\ conn'[c].decode = "handle"
             /\ devices_lock' = <<"decode", c>>]_vars

\* C18: a registry miss is skipped.  A decode loop that finds no session under
\* its port goes back to recv() with the registry lock released, and nothing
\* else changes: no handler run, no change of the graph, no dispatch.  A
\* timeout guard that finds no session ends without dispatching anything.
C18_RegistryMissSkipped ==
    [][\A c \in Conns :
          /\ (/\ conn[c].decode = "lock_devices"
              /\ conn'[c].decode # "lock_devices"
              /\ ~connected_devices[conn[c].port].present)
             => /\ conn' = [conn EXCEPT ![c].decode = "recv"]
                /\ devices_lock' = Free
                /\ UNCHANGED <<connected_devices, mesh_graph, graph_lock, notes, cfg_done>>
          /\ (/\ conn[c].timeout = "lock_devices"
              /\ conn'[c].timeout # "lock_devices"
              /\ ~connected_devices[conn[c].port].present)
             => /\ conn' = [conn EXCEPT ![c].timeout = "done"]
                /\ devices_lock' = Free
                /\ UNCHANGED <<connected_devices, mesh_graph, graph_lock, notes, cfg_done>>]_vars

\* C18 witness: a decode loop and a timeout guard have each found no session
\* under their port, the loop is waiting for the next event, and nothing was
\* dispatched.
C18_Witness ==
    /\ missed = {"decode", "timeout"}
    /\ notes = EmptyBag
    /\ \E c \in Conns : conn[c].decode = "recv" /\ conn[c].timeout = "done"

\* C19 (as stated): a device's status is Configuring only once connect and the
\* begin-configuration request have both succeeded; the session is inserted
\* into the registry, in Configuring, before its guard and decode loop are
\* spawned; if connect or configure fails no session is registered and neither
\* task is spawned.
C19_SetupOrdering_AsStated ==
    \A c \in Conns :
        /\ conn[c].status = "Configuring" => conn[c].setup \in {"Configuring", "saved", "done"}
        /\ (\E p \in Ports : connected_devices[p].id = c)
           => conn[c].setup \in {"saved", "done"}
        /\ (conn[c].timeout # "none" \/ conn[c].decode # "none") => conn[c].setup = "done"
        /\ conn[c].setup = "failed"
           => conn[c].timeout = "none" /\ conn[c].decode = "none"

\* C19: connection set-up ordering.  A device's status becomes Configuring once
\* connect has succeeded, before the begin-configuration request is made; a
\* session is registered only once connect and the request have both
\* succeeded, and it is registered in Configuring; the guard and the decode
\* loop are spawned only after the insertion; if connect or configure fails no
\* session is registered and neither task is spawned.
C19_SetupOrdering ==
    /\ [](\A c \in Conns :
            /\ conn[c].status = "Configuring"
               => conn[c].setup \in {"Configuring", "saved", "done", "failed"}
            /\ conn[c].setup \in {"Configuring", "saved", "done"}
               => conn[c].status = "Configuring"
            /\ (\E p \in Ports : connected_devices[p].id = c)
               => conn[c].setup \in {"saved", "done"} /\ connected_devices[conn[c].port].id = c
            /\ (conn[c].timeout # "none" \/ conn[c].decode # "none") => conn[c].setup = "done"
            /\ conn[c].setup = "failed"
               => conn[c].timeout = "none" /\ conn[c].decode = "none")
    /\ [][\A c \in Conns :
            /\ (conn[c].setup # "saved" /\ conn'[c].setup = "saved")
               => connected_devices'[conn[c].port] =
                     [present |-> TRUE, id |-> c, status |-> "Configuring"]
            /\ ((conn[c].timeout = "none" /\ conn'[c].timeout # "none")
                \/ (conn[c].decode = "none" /\ conn'[c].decode # "none"))
               => /\ conn[c].setup = "saved"
                  /\ conn'[c].timeout = "sleeping" /\ conn'[c].decode = "recv"]_vars

\* C19 witness: one set-up has run to its end, its session registered in
\* Configuring and both tasks spawned, and another has failed at the
\* begin-configuration request, its device already Configuring, leaving no
\* session and no task.
C19_Witness ==
    \E c \in Conns, d \in Conns :
        /\ conn[c].setup = "done"
        /\ connected_devices[conn[c].port] =
              [present |-> TRUE, id |-> c, status |-> "Configuring"]
        /\ conn[c].timeout = "sleeping" /\ conn[c].decode = "recv"
        /\ conn[d].setup = "failed" /\ conn[d].status = "Configuring"
        /\ conn[d].timeout = "none" /\ conn[d].decode = "none"

\* C20: termination.  Under fair scheduling a timeout guard that has been
\* spawned ends, whatever the status of the session, and a decode loop whose
\* event channel is closed ends; neither waits for ever for a lock.
C20_Termination ==
    \A c \in Conns :
        /\ (conn[c].timeout \in {"sleeping", "lock_devices"})
              ~> (conn[c].timeout \in {"done", "panicked"})
        /\ (conn[c].closed /\ conn[c].decode # "none")
              ~> (conn[c].decode \in {"done", "panicked"})

\* C20 witness: the channel of a connection is closed and both its tasks have
\* ended, the guard after its firing and the loop after recv() failed.
C20_Witness ==
    \E c \in Conns :
        conn[c].closed /\ conn[c].timeout = "done" /\ conn[c].decode = "done"

\* ------------------------------------------- claims: the Graph's indices
\* C21: key-index consistency.  In every reachable state node_idx_map is a
\* bijection between keys and live nodes: every mapped handle is a live node
\* named by its key, and every live node is the handle of exactly one key.
C21_KeyIndexBijection ==
    /\ \A k \in DOMAIN node_idx_map :
          /\ NodeLive(g, node_idx_map[k])
          /\ g.nodes[node_idx_map[k]].name = k
    /\ \A h \in 1..Len(g.nodes) :
          NodeLive(g, h)
          => Cardinality({k \in DOMAIN node_idx_map : node_idx_map[k] = h}) = 1

\* C22: edge-index consistency.  In every reachable state every handle in an
\* edge_idx_map list is a live edge joining exactly the pair of the list's key,
\* and every live edge between distinct nodes a, b is listed exactly once under
\* (a,b), so that the sum over a pair's list is the total weight of the edges
\* between the pair.
C22_EdgeIndexConsistent ==
    /\ \A pr \in DOMAIN edge_idx_map :
          \A i \in 1..Len(edge_idx_map[pr]) :
             edge_idx_map[pr][i] \in EdgesBetween(g, pr[1], pr[2])
    /\ \A a \in 1..Len(g.nodes), b \in 1..Len(g.nodes) :
          a # b
          => \A e \in EdgesBetween(g, a, b) :
                Cardinality({i \in 1..Len(Entry(edge_idx_map, <<a, b>>)) :
                               edge_idx_map[<<a, b>>][i] = e}) = 1

\* ------------------------------------ claims: the guard and its session
\* C23: guard-to-session binding.  Every failure notification is about the
\* session the sending guard was spawned for, and no session has more than one
\* failure notification.
C23_GuardBoundToSession ==
    \A n \in BagToSet(notes) :
        ~n.successful
        => /\ n.by = <<"timeout", n.session>>
           /\ \A k \in BagToSet(notes) :
                 (~k.successful /\ k.port = n.port /\ k.session = n.session) => k = n

=============================================================================
